---- MODULE Spec2Model ----
(***************************************************************************)
(* Churnobyl retraining pipeline: the data module (schema table, loading   *)
(* strategies, DataEngine, validate_data_config) of                        *)
(* src/churnobyl/src/data.py and the Prefect flow of                       *)
(* src/churnobyl/engine.py.                                                *)
(*                                                                         *)
(* Data frames are sequences of rows; a row is a record over the 21        *)
(* columns of the schema.  Object (string) columns hold strings, with      *)
(* Null standing for a missing value; int64/float64 columns hold integers. *)
(* Exceptions are modelled by the variable raised, which holds the name of *)
(* the exception type that left the call, or "none".                       *)
(*                                                                         *)
(* Specifications:                                                         *)
(*   Spec          the flow workflow() of engine.py, task by task          *)
(*   SpecValidate  DataEngine.validate (the data_validator task) on frames *)
(*   SpecConfig    validate_data_config on configurations                  *)
(*   SpecLoad      DataEngine.load on data sources                         *)
(*   SpecSplit     DataEngine.split on frames, ratios and shuffles         *)
(*   SpecTransform DataEngine.transform on splits, statement by statement  *)
(*                                                                         *)
(* The configuration is a Box built with the default options: reading a    *)
(* key that is absent raises BoxKeyError.  pandera, polars and sklearn are *)
(* modelled by what the calls made here do with their arguments.           *)
(***************************************************************************)
EXTENDS Integers, Sequences, FiniteSets, TLC

VARIABLES
    config,      \* the Box configuration object (NoConfig before setup)
    config0,     \* history: the configuration as it was loaded
    files,       \* environment: directory listing / bucket listing
    isDir,       \* environment: whether config.data.load.args.dir is a directory
    readOk,      \* environment: the listed objects whose read succeeded in the
                 \* latest loading attempt
    data,        \* the data frame held by the flow (NoData before loading)
    ret,         \* return value of the last call
    raised,      \* exception that left the last call, "none" if it returned
    stdout,      \* what the latest call has printed, in order
    pc,          \* position of the flow / of the caller
    started,     \* history: task names in the order their first attempt started
    completed,   \* history: task names in the order they completed successfully
    attempts,    \* history: task name -> attempts made of it
    validated,   \* history: DataSchema.validate has accepted the frame in data
    splits,      \* X_train, X_test, y_train, y_test (NoSplits before data_splits)
    transformed_ds, \* the TransformerOutput held by the flow
    results,     \* what train_models returned
    tuner,       \* what tune_models returned
    artifacts,   \* files written to artifact_dir, in order
    viz_files,   \* plots present in viz_dir
    pushed,      \* Pilot.push_artifacts has uploaded the artifacts
    locals       \* local variables of a DataEngine.transform call in progress

vars == <<config, config0, files, isDir, readOk, data, ret, raised, stdout, pc,
          started, completed, attempts, validated, splits, transformed_ds,
          results, tuner, artifacts, viz_files, pushed, locals>>

NoConfig == [none |-> "config"]
NoData == [none |-> "data"]
NoSplits == [none |-> "splits"]
NoRet == [none |-> "ret"]
NoLocals ==
    [feature_transformer |-> NoRet, label_transformer |-> NoRet,
     arrays |-> <<>>, transformed_dataset |-> NoRet]

\* The tasks of the flow, in the order workflow() calls them:
\* engine.py lines 182-221.
FlowTasks ==
    <<"setup_pipeline", "data_loader", "data_splits", "data_transformer",
      "train_models", "tune_models", "visualize_insights", "push_artifacts">>

\* Every @task of engine.py.
Tasks ==
    {"setup_pipeline", "data_loader", "data_validator", "data_splits",
     "data_transformer", "train_models", "tune_models", "visualize_insights",
     "push_artifacts"}

NoAttempts == [t \in Tasks |-> 0]

-----------------------------------------------------------------------------
(* Sequence helpers                                                        *)

Range(s) == {s[i] : i \in 1..Len(s)}

RECURSIVE Flatten(_)
Flatten(ss) == IF ss = <<>> THEN <<>> ELSE Head(ss) \o Flatten(Tail(ss))

SeqsUpTo(S, n) == UNION {[1..k -> S] : k \in 0..n}

-----------------------------------------------------------------------------
(* The schema table: data.py lines 20-310                                  *)

Null == "<null>"

Columns ==
    <<"customerID", "gender", "SeniorCitizen", "Partner", "Dependents",
      "tenure", "PhoneService", "MultipleLines", "InternetService",
      "OnlineSecurity", "OnlineBackup", "DeviceProtection", "TechSupport",
      "StreamingTV", "StreamingMovies", "Contract", "PaperlessBilling",
      "PaymentMethod", "MonthlyCharges", "TotalCharges", "Churn">>

Isin(allowed) == [kind |-> "isin", allowed |-> allowed, min |-> 0]
GreaterEq(m) == [kind |-> "greater_than_or_equal_to", allowed |-> {}, min |-> m]

\* checks: column name -> list of pa.Check
checks ==
    [customerID |-> <<>>,
     gender |-> <<Isin({"Male", "Female"})>>,
     SeniorCitizen |-> <<Isin({0, 1})>>,
     Partner |-> <<Isin({"Yes", "No"})>>,
     Dependents |-> <<Isin({"Yes", "No"})>>,
     tenure |-> <<GreaterEq(0)>>,
     PhoneService |-> <<Isin({"No", "Yes"})>>,
     MultipleLines |-> <<Isin({"No", "Yes", "No phone service"})>>,
     InternetService |-> <<Isin({"DSL", "Fiber optic", "No"})>>,
     OnlineSecurity |-> <<Isin({"No", "Yes", "No internet service"})>>,
     OnlineBackup |-> <<Isin({"Yes", "No", "No internet service"})>>,
     DeviceProtection |-> <<Isin({"No", "Yes", "No internet service"})>>,
     TechSupport |-> <<Isin({"No", "Yes", "No internet service"})>>,
     StreamingTV |-> <<Isin({"No", "Yes", "No internet service"})>>,
     StreamingMovies |-> <<Isin({"No", "Yes", "No internet service"})>>,
     Contract |-> <<Isin({"Month-to-month", "One year", "Two year"})>>,
     PaperlessBilling |-> <<Isin({"Yes", "No"})>>,
     PaymentMethod |-> <<Isin({"Electronic check", "Mailed check",
                              "Bank transfer (automatic)",
                              "Credit card (automatic)"})>>,
     MonthlyCharges |-> <<>>,
     TotalCharges |-> <<>>,
     Churn |-> <<Isin({"No", "Yes"})>>]

\* pa.Column(dtype=..., checks=..., nullable=False, required=True)
Column(dtype, chks) == [dtype |-> dtype, checks |-> chks, nullable |-> FALSE]

\* DataSchema: PaperlessBilling is declared with checks=None (line 236),
\* every other column with checks.get(<its name>).
DataSchema ==
    [customerID |-> Column("object", checks["customerID"]),
     gender |-> Column("object", checks["gender"]),
     SeniorCitizen |-> Column("int64", checks["SeniorCitizen"]),
     Partner |-> Column("object", checks["Partner"]),
     Dependents |-> Column("object", checks["Dependents"]),
     tenure |-> Column("int64", checks["tenure"]),
     PhoneService |-> Column("object", checks["PhoneService"]),
     MultipleLines |-> Column("object", checks["MultipleLines"]),
     InternetService |-> Column("object", checks["InternetService"]),
     OnlineSecurity |-> Column("object", checks["OnlineSecurity"]),
     OnlineBackup |-> Column("object", checks["OnlineBackup"]),
     DeviceProtection |-> Column("object", checks["DeviceProtection"]),
     TechSupport |-> Column("object", checks["TechSupport"]),
     StreamingTV |-> Column("object", checks["StreamingTV"]),
     StreamingMovies |-> Column("object", checks["StreamingMovies"]),
     Contract |-> Column("object", checks["Contract"]),
     PaperlessBilling |-> Column("object", <<>>),
     PaymentMethod |-> Column("object", checks["PaymentMethod"]),
     MonthlyCharges |-> Column("float64", checks["MonthlyCharges"]),
     TotalCharges |-> Column("object", checks["TotalCharges"]),
     Churn |-> Column("object", checks["Churn"])]

\* A missing value: only object columns hold one in this model.
IsNull(col, v) == col.dtype = "object" /\ v = Null

\* One pa.Check applied to one non-null value.
CheckPasses(chk, v) ==
    IF chk.kind = "isin" THEN v \in chk.allowed ELSE v >= chk.min

\* data.to_pandas(): the rows under a RangeIndex that starts at 0.
to_pandas(frame) ==
    [i \in 1..Len(frame) |-> [index |-> i - 1, row |-> frame[i]]]

\* The failure cases of one column under lazy validation: one entry per
\* (rule, row) that fails; null values fail not_nullable and are left out of
\* the value checks, as pandera drops them before running a Check.
ColumnFailures(schema, name, df) ==
    {[column |-> name, check |-> "not_nullable", index |-> df[j].index]
        : j \in {j \in 1..Len(df) :
                    /\ ~schema[name].nullable
                    /\ IsNull(schema[name], df[j].row[name])}}
    \cup
    {[column |-> name, check |-> schema[name].checks[p[1]].kind,
      index |-> df[p[2]].index]
        : p \in {p \in (1..Len(schema[name].checks)) \X (1..Len(df)) :
                /\ ~IsNull(schema[name], df[p[2]].row[name])
                /\ ~CheckPasses(schema[name].checks[p[1]],
                                df[p[2]].row[name])}}

\* The mutant: eager validation (lazy=False) reports the first failing column
\* only.
SchemaFailures_FirstColumn(schema, df) ==
    LET bad == {k \in 1..Len(Columns) :
                    ColumnFailures(schema, Columns[k], df) # {}}
    IN IF bad = {} THEN {}
       ELSE ColumnFailures(schema,
                Columns[CHOOSE k \in bad : \A m \in bad : k <= m], df)

\* DataSchema.validate(df, lazy=True): err.failure_cases, over every column.
SchemaFailures(schema, df) ==
    UNION {ColumnFailures(schema, Columns[k], df) : k \in 1..Len(Columns)}

-----------------------------------------------------------------------------
(* DataEngine.validate: data.py lines 414-425                              *)

Line(text) == [kind |-> "text", text |-> text]
Table(kind, payload) == [kind |-> kind, payload |-> payload]

\* The call's outcome: what it returns, what it raises, what it prints.
DataEngine_validate(frame) ==
    LET failure_cases == SchemaFailures(DataSchema, to_pandas(frame))
    IN IF failure_cases # {}
       THEN [ret |-> NoRet,
             raised |-> "Exception",
             printed |-> <<Line("Schema errors and failure cases:"),
                           Table("failure_cases", failure_cases),
                           Line("DataFrame object that failed validation:"),
                           Table("data", to_pandas(frame))>>]
       ELSE [ret |-> frame, raised |-> "none", printed |-> <<>>]

-----------------------------------------------------------------------------
(* The configuration object: a Box over the YAML document                  *)

\* Python values whose type the code inspects.
PyStr(x) == [type |-> "str", value |-> x]
PyBool(b) == [type |-> "bool", value |-> b]
PyNone == [type |-> "NoneType", value |-> "None"]
\* A number, held in tenths: PyFloat(2) is 0.2, PyInt(1) is 1.
PyFloat(tenths) == [type |-> "float", value |-> tenths]
PyInt(n) == [type |-> "int", value |-> 10 * n]

\* box.key on a Box built with the default options: a missing key raises
\* BoxKeyError.
BoxHas(box, key) == key \in DOMAIN box

\* float(x), in tenths; the exception it raises otherwise.
FloatRaises(x) ==
    IF x.type \in {"float", "int"} THEN "none"
    ELSE IF x.type = "str" THEN "ValueError" ELSE "TypeError"

\* DataLoaderStrategyFactory.keys(): data.py lines 392-395
DataLoaderStrategyFactory == {"dir", "aws_s3"}

\* len(cols) == len(set(cols))
AllUnique(cols) == Cardinality(Range(cols)) = Len(cols)

\* if float(split_config.ratio) > 1.0: raise ConfigValidationError
validate_split_ratio(ratio) ==
    IF ratio.value > 10 THEN "ConfigValidationError" ELSE "none"

\* validate_data_config, "Validating transform args": data.py lines 544-564
validate_transform_args(data_config) ==
    IF ~BoxHas(data_config, "transform") THEN "BoxKeyError"
    ELSE LET transform_config == data_config.transform
             transform_params == <<"scale", "dummy", "ordinal">>
         IN IF \E param \in DOMAIN transform_config :
                    param \notin Range(transform_params)
            THEN "ConfigValidationError"
            ELSE IF \E param \in Range(transform_params) :
                        ~BoxHas(transform_config, param)
            THEN "TypeError"     \* for col in None
            ELSE IF ~AllUnique(transform_config.scale
                               \o transform_config.dummy
                               \o transform_config.ordinal)
            THEN "ConfigValidationError"
            ELSE "none"

\* validate_data_config, "Validating split args": data.py lines 527-542
validate_split_args(data_config) ==
    IF ~BoxHas(data_config, "split") THEN "BoxKeyError"
    ELSE LET split_config == data_config.split
             split_args == {"ratio", "stratify"}
         IN IF \E arg \in DOMAIN split_config : arg \notin split_args
            THEN "ConfigValidationError"
            ELSE IF ~BoxHas(split_config, "ratio") THEN "BoxKeyError"
            ELSE IF FloatRaises(split_config.ratio) # "none"
            THEN FloatRaises(split_config.ratio)
            ELSE IF validate_split_ratio(split_config.ratio) # "none"
            THEN validate_split_ratio(split_config.ratio)
            ELSE IF ~BoxHas(split_config, "stratify") THEN "BoxKeyError"
            ELSE IF split_config.stratify.type # "bool"
            THEN "ConfigValidationError"
            ELSE "none"

\* validate_data_config, "Validating load args": data.py lines 519-525
validate_load_args(data_config) ==
    IF ~BoxHas(data_config, "load") THEN "BoxKeyError"
    ELSE IF ~BoxHas(data_config.load, "strategy") THEN "BoxKeyError"
    ELSE IF ~(/\ data_config.load.strategy.type = "str"
              /\ data_config.load.strategy.value \in DataLoaderStrategyFactory)
    THEN "ConfigValidationError"
    ELSE "none"

\* validate_data_config, "Validating base data args": data.py lines 510-517
validate_base_args(data_config) ==
    IF \E stage \in DOMAIN data_config :
            stage \notin {"load", "split", "transform"}
    THEN "ConfigValidationError" ELSE "none"

\* validate_data_config(config): the exception that leaves it, or "none".
\* The four groups run in this order and the first raise ends the call.
validate_data_config(cfg) ==
    IF validate_base_args(cfg.data) # "none"
    THEN validate_base_args(cfg.data)
    ELSE IF validate_load_args(cfg.data) # "none"
    THEN validate_load_args(cfg.data)
    ELSE IF validate_split_args(cfg.data) # "none"
    THEN validate_split_args(cfg.data)
    ELSE validate_transform_args(cfg.data)

-----------------------------------------------------------------------------
(* Data loading strategies and DataEngine.load: data.py lines 313-412      *)
(*                                                                         *)
(* files is the listing of the data source, in listing order.  An entry is *)
(* [path, name, ext, frame]: path is the sequence of folders above the     *)
(* file (<<>> for a file directly in the directory or at the bucket root), *)
(* frame is what the CSV parses to.  ok is the set of positions of files   *)
(* whose read succeeds during the call.                                    *)

\* pl.col("TotalCharges").str.replace(pattern=" ", value="0")
str_replace_blank(v) == IF v = " " THEN "0" ELSE v

\* pl.scan_csv(...).with_columns(...): the frame of one file.
\* _read in DirDataLoaderStrategy (lines 330-337), and lines 371-379.
scan_csv(frame) ==
    [i \in 1..Len(frame) |->
        [frame[i] EXCEPT !.TotalCharges = str_replace_blank(@)]]

\* pl.concat(items, **kwargs): polars accepts the keywords how, rechunk and
\* parallel; any other keyword is a TypeError.
pl_concat(items, kwargs) ==
    IF ~(kwargs \subseteq {"how", "rechunk", "parallel"})
    THEN [ret |-> NoRet, raised |-> "TypeError"]
    ELSE [ret |-> Flatten(items), raised |-> "none"]

\* Positions of s, in order, that satisfy the test.
RECURSIVE Positions(_, _, _)
Positions(s, i, keep) ==
    IF i > Len(s) THEN <<>>
    ELSE (IF i \in keep THEN <<i>> ELSE <<>>) \o Positions(s, i + 1, keep)

\* self.dir.glob("*.csv"): the CSV files directly in the directory.
glob_csv(listing) ==
    Positions(listing, 1,
              {i \in 1..Len(listing) :
                  listing[i].path = <<>> /\ listing[i].ext = "csv"})

\* The mutant: an empty glob is not checked and yields an empty frame.
DirDataLoaderStrategy_NoEmptyCheck(args, listing, is_dir, ok) ==
    LET paths == glob_csv(listing)
    IN IF ~is_dir
       THEN [ret |-> NoRet, raised |-> "Exception", printed |-> <<>>]
       ELSE IF \E k \in 1..Len(paths) : paths[k] \notin ok
       THEN [ret |-> NoRet, raised |-> "ComputeError", printed |-> <<>>]
       ELSE LET r == pl_concat(
                        [k \in 1..Len(paths) |-> scan_csv(listing[paths[k]].frame)],
                        {"how"})
            IN [ret |-> r.ret, raised |-> r.raised, printed |-> <<>>]

\* DirDataLoaderStrategy.__call__: lines 325-345.  The frames are scanned
\* lazily; a file that cannot be read fails the final collect().
DirDataLoaderStrategy(args, listing, is_dir, ok) ==
    LET paths == glob_csv(listing)
    IN IF ~is_dir
       THEN [ret |-> NoRet, raised |-> "Exception", printed |-> <<>>]
       ELSE IF Len(paths) = 0
       THEN [ret |-> NoRet, raised |-> "Exception", printed |-> <<>>]
       ELSE IF \E k \in 1..Len(paths) : paths[k] \notin ok
       THEN [ret |-> NoRet, raised |-> "ComputeError", printed |-> <<>>]
       ELSE LET r == pl_concat(
                        [k \in 1..Len(paths) |-> scan_csv(listing[paths[k]].frame)],
                        {"how"})
            IN [ret |-> r.ret, raised |-> r.raised, printed |-> <<>>]

\* s3_client.list_objects_v2(Bucket=..., Prefix=folder_path): the keys that
\* start with the prefix; every key when folder_path is "".
list_objects_v2(listing, folder_path) ==
    Positions(listing, 1,
              {i \in 1..Len(listing) :
                  \/ folder_path = ""
                  \/ /\ Len(listing[i].path) >= 1
                     /\ listing[i].path[1] = folder_path})

\* file_url = f"{s3_url}/{key}": the key under the bucket that the URL names.
\* s3_url already ends in folder_path, and key is the full key.
file_url(folder_path, obj) ==
    [path |-> (IF folder_path = "" THEN <<>> ELSE <<folder_path>>) \o obj.path,
     name |-> obj.name, ext |-> obj.ext]

\* The positions of the objects the URLs of the listed CSV keys name, in
\* listing order, with 0 for a URL that names no object.
url_targets(listing, folder_path) ==
    LET listed == list_objects_v2(listing, folder_path)
        csv == Positions(listed, 1,
                         {k \in 1..Len(listed) : listing[listed[k]].ext = "csv"})
        target(k) ==
            LET url == file_url(folder_path, listing[listed[csv[k]]])
                hit == {j \in 1..Len(listing) :
                          /\ listing[j].path = url.path
                          /\ listing[j].name = url.name
                          /\ listing[j].ext = url.ext}
            IN IF hit = {} THEN 0 ELSE CHOOSE j \in hit : TRUE
    IN [k \in 1..Len(csv) |-> [key |-> listed[csv[k]], target |-> target(k)]]

\* AwsS3DataLoaderStrategy.__call__: lines 354-389.
AwsS3DataLoaderStrategy(args, listing, ok) ==
    LET reads == url_targets(listing, args.folder_path)
        good == Positions(reads, 1,
                          {k \in 1..Len(reads) :
                              reads[k].target # 0 /\ reads[k].target \in ok})
        dataframes ==
            [k \in 1..Len(good) |-> scan_csv(listing[reads[good[k]].target].frame)]
        printed ==
            [k \in 1..Len(reads) |->
                [kind |-> "text",
                 text |-> IF reads[k].target # 0 /\ reads[k].target \in ok
                          THEN "Loaded" ELSE "Error loading",
                 key |-> reads[k].key]]
    IN IF Len(dataframes) = 0
       THEN [ret |-> NoRet, raised |-> "Exception", printed |-> printed]
       ELSE LET r == pl_concat(dataframes, {"ignore_index"})
            IN [ret |-> r.ret, raised |-> r.raised, printed |-> printed]

\* DataEngine.load(config): lines 407-412.
\* DataLoaderStrategyFactory.get of an unknown strategy is None, and calling
\* None is a TypeError.
DataEngine_load(load_config, listing, is_dir, ok) ==
    IF ~BoxHas(load_config, "strategy")
    THEN [ret |-> NoRet, raised |-> "BoxKeyError", printed |-> <<>>]
    ELSE IF load_config.strategy.type = "NoneType"
    THEN [ret |-> NoRet, raised |-> "Exception", printed |-> <<>>]
    ELSE IF load_config.strategy.value = "dir"
    THEN DirDataLoaderStrategy(load_config.args, listing, is_dir, ok)
    ELSE IF load_config.strategy.value = "aws_s3"
    THEN AwsS3DataLoaderStrategy(load_config.args, listing, ok)
    ELSE [ret |-> NoRet, raised |-> "TypeError", printed |-> <<>>]

-----------------------------------------------------------------------------
(* DataEngine.split: data.py lines 427-450                                 *)
(*                                                                         *)
(* train_test_split draws its shuffle from a generator seeded with         *)
(* random_state; a draw is the permutation perm of the row positions.      *)

\* data.drop("Churn") and data.select("Churn")
drop_Churn(frame) ==
    [i \in 1..Len(frame) |->
        [c \in (DOMAIN frame[i]) \ {"Churn"} |-> frame[i][c]]]
select_Churn(frame) ==
    [i \in 1..Len(frame) |-> [Churn |-> frame[i].Churn]]

\* frame[ind]: the rows at the positions ind, in that order.
take(frame, ind) == [k \in 1..Len(ind) |-> frame[ind[k]]]

\* ceil(tenths / 10 * n)
CeilTenths(tenths, n) == (tenths * n + 9) \div 10

\* sklearn's _validate_shuffle_split(n_samples, test_size, train_size=None).
validate_shuffle_split(n_samples, test_size) ==
    IF test_size.type = "str" \/ test_size.type = "NoneType"
    THEN [raised |-> "ValueError", n_train |-> 0, n_test |-> 0]
    ELSE IF \/ /\ test_size.type = "int"
               /\ (test_size.value \div 10 >= n_samples \/ test_size.value <= 0)
            \/ /\ test_size.type = "float"
               /\ (test_size.value <= 0 \/ test_size.value >= 10)
    THEN [raised |-> "ValueError", n_train |-> 0, n_test |-> 0]
    ELSE LET n_test == IF test_size.type = "float"
                       THEN CeilTenths(test_size.value, n_samples)
                       ELSE test_size.value \div 10
             n_train == n_samples - n_test
         IN IF n_train = 0
            THEN [raised |-> "ValueError", n_train |-> 0, n_test |-> 0]
            ELSE [raised |-> "none", n_train |-> n_train, n_test |-> n_test]

\* The members of class c, by position.
ClassMembers(y, c) == {i \in 1..Len(y) : y[i].Churn = c}

RECURSIVE SumOver(_, _)
SumOver(f, S) ==
    IF S = {} THEN 0
    ELSE LET x == CHOOSE x \in S : TRUE IN f[x] + SumOver(f, S \ {x})

\* sklearn's _approximate_mode(class_counts, n_draws, rng): every allocation
\* it can return.  Each class gets the floor of its share, and the draws left
\* over go to the classes with the largest remainders, ties broken by rng.
approximate_mode(y, classes, n_draws) ==
    LET n == Len(y)
        count(c) == Cardinality(ClassMembers(y, c))
        floored(c) == (count(c) * n_draws) \div n
        remainder(c) == (count(c) * n_draws) % n
    IN {a \in [classes -> 0..n] :
          /\ \A c \in classes : a[c] \in {floored(c), floored(c) + 1}
          /\ SumOver(a, classes) = n_draws
          /\ \A c, d \in classes :
                (remainder(c) > remainder(d) /\ a[d] = floored(d) + 1)
                    => a[c] = floored(c) + 1}

\* The number of positions of class y[perm[k]] among perm[1..k].
RankInClass(y, perm, k) ==
    Cardinality({m \in 1..k : y[perm[m]].Churn = y[perm[k]].Churn})

\* The mutant: the test features are taken at the train positions.
parts_SameFeatures(X, y, ind_train, ind_test) ==
    [raised |-> "none",
     X_train |-> take(X, ind_train), X_test |-> take(X, ind_train),
     y_train |-> take(y, ind_train), y_test |-> take(y, ind_test)]

\* The four parts a split returns, from the positions it chose.
parts(X, y, ind_train, ind_test) ==
    [raised |-> "none",
     X_train |-> take(X, ind_train), X_test |-> take(X, ind_test),
     y_train |-> take(y, ind_train), y_test |-> take(y, ind_test)]

SplitRaises(e) ==
    [raised |-> e, X_train |-> <<>>, X_test |-> <<>>,
     y_train |-> <<>>, y_test |-> <<>>]

\* train_test_split(X, y, test_size=ratio, random_state=seed): lines 443-448.
\* ShuffleSplit: the first n_test positions of the permutation are the test
\* part, the next n_train the train part.
train_test_split(X, y, test_size, perm) ==
    LET v == validate_shuffle_split(Len(X), test_size)
    IN IF v.raised # "none" THEN {SplitRaises(v.raised)}
       ELSE {parts(X, y,
                   SubSeq(perm, v.n_test + 1, v.n_test + v.n_train),
                   SubSeq(perm, 1, v.n_test))}

\* train_test_split(..., stratify=y): lines 435-441.
\* StratifiedShuffleSplit: a class needs two members, each part needs a row
\* per class; class c gives a[c] rows to the train part and the rest to the
\* test part.
train_test_split_stratified(X, y, test_size, perm) ==
    LET v == validate_shuffle_split(Len(X), test_size)
        classes == {y[i].Churn : i \in 1..Len(y)}
    IN IF v.raised # "none" THEN {SplitRaises(v.raised)}
       ELSE IF \E c \in classes : Cardinality(ClassMembers(y, c)) < 2
       THEN {SplitRaises("ValueError")}
       ELSE IF v.n_train < Cardinality(classes)
                \/ v.n_test < Cardinality(classes)
       THEN {SplitRaises("ValueError")}
       ELSE {parts(X, y,
                   take(perm, Positions(perm, 1,
                       {k \in 1..Len(perm) :
                           RankInClass(y, perm, k) <= a[y[perm[k]].Churn]})),
                   take(perm, Positions(perm, 1,
                       {k \in 1..Len(perm) :
                           RankInClass(y, perm, k) > a[y[perm[k]].Churn]})))
               : a \in approximate_mode(y, classes, v.n_train)}

\* if config.stratify: the truth value of a Python object.
Truthy(x) ==
    IF x.type = "bool" THEN x.value
    ELSE IF x.type = "NoneType" THEN FALSE
    ELSE IF x.type = "str" THEN x.value # ""
    ELSE x.value # 0

\* DataEngine.split(config, data, seed): every result the call can have for
\* the shuffle perm.
DataEngine_split(split_config, frame, perm) ==
    LET X == drop_Churn(frame)
        y == select_Churn(frame)
    IN IF ~BoxHas(split_config, "stratify") \/ ~BoxHas(split_config, "ratio")
       THEN {SplitRaises("BoxKeyError")}
       ELSE IF Truthy(split_config.stratify)
       THEN train_test_split_stratified(X, y, split_config.ratio, perm)
       ELSE train_test_split(X, y, split_config.ratio, perm)

-----------------------------------------------------------------------------
(* DataEngine.transform: data.py lines 398-403 and 452-504                 *)

\* The values of column c in a frame.
ColumnValuesOf(frame, c) == {frame[i][c] : i \in 1..Len(frame)}

\* Strings that StandardScaler converts to a float.
NumericStrings == {"29.85", "0"}

\* The columns of X whose values are numbers or convert to numbers.
IsNumericColumn(frame, c) ==
    IF DataSchema[c].dtype = "object"
    THEN ColumnValuesOf(frame, c) \subseteq NumericStrings
    ELSE TRUE

\* ColumnTransformer(...).fit(X): what the fitted object remembers.  A
\* column that X lacks, or a scaled column that is not numeric, is a
\* ValueError.
fit_features(transform_config, X) ==
    LET cols == Range(transform_config.scale) \cup Range(transform_config.dummy)
                \cup Range(transform_config.ordinal)
    IN IF \E c \in cols : \E i \in 1..Len(X) : c \notin DOMAIN X[i]
       THEN [raised |-> "ValueError"]
       ELSE IF \E c \in Range(transform_config.scale) : ~IsNumericColumn(X, c)
       THEN [raised |-> "ValueError"]
       ELSE [raised |-> "none",
             kind |-> "ColumnTransformer",
             scale |-> transform_config.scale,
             dummy |-> transform_config.dummy,
             ordinal |-> transform_config.ordinal,
             categories |->
                [c \in Range(transform_config.dummy)
                        \cup Range(transform_config.ordinal)
                    |-> ColumnValuesOf(X, c)],
             fitted_on |-> X]

\* LabelBinarizer().fit(y)
fit_labels(y) ==
    [raised |-> "none", kind |-> "LabelBinarizer",
     classes |-> ColumnValuesOf(y, "Churn"), fitted_on |-> y]

\* feature_transformer.transform(X): OneHotEncoder and OrdinalEncoder raise
\* ValueError on a category they were not fitted on (handle_unknown="error").
transform_features(fitted, X) ==
    IF \E c \in DOMAIN fitted.categories :
            ~(ColumnValuesOf(X, c) \subseteq fitted.categories[c])
    THEN [raised |-> "ValueError"]
    ELSE IF \E c \in Range(fitted.scale) : ~IsNumericColumn(X, c)
    THEN [raised |-> "ValueError"]
    ELSE [raised |-> "none", array |-> [by |-> fitted, of |-> X]]

\* label_transformer.transform(y): an unseen label encodes as zeros.
transform_labels(fitted, y) ==
    [raised |-> "none", array |-> [by |-> fitted, of |-> y]]

\* TransformerOutput: a frozen dataclass of four arrays.
TransformerOutput(X_train, X_test, y_train, y_test) ==
    [X_train |-> X_train, X_test |-> X_test,
     y_train |-> y_train, y_test |-> y_test]

\* The mutant: the dataclass is declared without frozen=True.
TransformerOutput_setattr_NotFrozen(obj, name, value) ==
    [obj |-> [obj EXCEPT ![name] = value], raised |-> "none"]

\* obj.<name> = value on a TransformerOutput: @dataclass(frozen=True) makes
\* __setattr__ raise FrozenInstanceError and leaves the object as it was.
TransformerOutput_setattr(obj, name, value) ==
    [obj |-> obj, raised |-> "FrozenInstanceError"]

Pickle(path, obj) == [path |-> path, content |-> obj]
Savez(path, features, labels) ==
    [path |-> path, content |-> [features |-> features, labels |-> labels]]

\* DataEngine.transform(config, X_train, X_test, y_train, y_test,
\* artifact_dir): what it returns or raises and the files it has written by
\* then.
DataEngine_transform(transform_config, s) ==
    IF \E k \in {"scale", "dummy", "ordinal"} : ~BoxHas(transform_config, k)
    THEN [ret |-> NoRet, raised |-> "BoxKeyError", written |-> <<>>]
    ELSE
    LET feature_transformer == fit_features(transform_config, s.X_train)
        label_transformer == fit_labels(s.y_train)
    IN IF feature_transformer.raised # "none"
       THEN [ret |-> NoRet, raised |-> feature_transformer.raised,
             written |-> <<>>]
       ELSE
       LET pickles == <<Pickle("feature_transformer_.pkl", feature_transformer),
                        Pickle("label_binarizer.pkl", label_transformer)>>
           Xtr == transform_features(feature_transformer, s.X_train)
           Xte == transform_features(feature_transformer, s.X_test)
           ytr == transform_labels(label_transformer, s.y_train)
           yte == transform_labels(label_transformer, s.y_test)
       IN IF Xtr.raised # "none"
          THEN [ret |-> NoRet, raised |-> Xtr.raised, written |-> pickles]
          ELSE IF Xte.raised # "none"
          THEN [ret |-> NoRet, raised |-> Xte.raised, written |-> pickles]
          ELSE
          LET transformed_dataset ==
                TransformerOutput(Xtr.array, Xte.array, ytr.array, yte.array)
          IN [ret |-> transformed_dataset,
              raised |-> "none",
              written |-> pickles \o
                 <<Savez("train_dataset.npz", transformed_dataset.X_train,
                         transformed_dataset.y_train),
                   Savez("test_dataset.npz", transformed_dataset.X_test,
                         transformed_dataset.y_test)>>]

-----------------------------------------------------------------------------
(* Sample rows and frames                                                  *)

BaseRow ==
    [customerID |-> "7590-VHVEG", gender |-> "Female", SeniorCitizen |-> 0,
     Partner |-> "Yes", Dependents |-> "No", tenure |-> 1,
     PhoneService |-> "No", MultipleLines |-> "No phone service",
     InternetService |-> "DSL", OnlineSecurity |-> "No",
     OnlineBackup |-> "Yes", DeviceProtection |-> "No", TechSupport |-> "No",
     StreamingTV |-> "No", StreamingMovies |-> "No",
     Contract |-> "Month-to-month", PaperlessBilling |-> "Yes",
     PaymentMethod |-> "Electronic check", MonthlyCharges |-> 30,
     TotalCharges |-> "29.85", Churn |-> "No"]

\* A value outside every allowed-value set of the checks table.
OutOfDomain == "Maybe"

\* The values a cell of column c is drawn from: the allowed values of the
\* checks table, one value outside them, and a missing value.
SampleValues(c) ==
    IF c = "SeniorCitizen" THEN {0, 1, 2}
    ELSE IF c = "tenure" THEN {-1, 0, 1}
    ELSE IF c = "MonthlyCharges" THEN {30, 70}
    ELSE IF c = "customerID" THEN {"7590-VHVEG", "5575-GNVDE", Null}
    ELSE IF c = "TotalCharges" THEN {"29.85", " ", Null}
    ELSE checks[c][1].allowed \cup {OutOfDomain, Null}

\* Rows that differ from BaseRow in at most one column.
SampleRows ==
    {[BaseRow EXCEPT ![Columns[k]] = v] :
        <<k, v>> \in UNION {{<<k, v>> : v \in SampleValues(Columns[k])}
                               : k \in 1..Len(Columns)}}

MaxRows == 2

SampleFrames == SeqsUpTo(SampleRows, MaxRows)

-----------------------------------------------------------------------------
(* Sample configurations                                                   *)

SEED == 69420

DirArgs == [dir |-> "./data"]
S3Args(folder) ==
    [bucket_name |-> "churn-bucket", folder_path |-> folder,
     session |-> "boto3.Session"]

LoadChoices ==
    {[strategy |-> PyStr("dir"), args |-> DirArgs],
     [strategy |-> PyStr("aws_s3"), args |-> S3Args("")],
     [strategy |-> PyStr("aws_s3"), args |-> S3Args("telco")],
     [strategy |-> PyStr("gcs"), args |-> DirArgs],
     [strategy |-> PyNone, args |-> DirArgs],
     [args |-> DirArgs]}

RatioChoices ==
    {PyFloat(2), PyFloat(5), PyFloat(0), PyFloat(10), PyFloat(-5),
     PyFloat(15), PyInt(1), PyInt(2), PyStr("a fifth")}

StratifyChoices == {PyBool(TRUE), PyBool(FALSE), PyStr("yes")}

SplitChoices ==
    {[ratio |-> r, stratify |-> b] :
        <<r, b>> \in RatioChoices \X StratifyChoices}
    \cup {[ratio |-> r, stratify |-> PyBool(FALSE), shuffle |-> PyBool(TRUE)]
            : r \in RatioChoices}
    \cup {[stratify |-> b] : b \in StratifyChoices}
    \cup {[ratio |-> r] : r \in RatioChoices}

TransformChoices ==
    {[scale |-> sc, dummy |-> <<"Contract">>, ordinal |-> od] :
        <<sc, od>> \in {<<"tenure">>, <<"tenure", "tenure">>, <<>>}
                        \X {<<"gender">>, <<"Contract">>, <<"gender", "Partner">>}}
    \cup {[scale |-> <<"tenure">>, dummy |-> <<"Contract">>,
           ordinal |-> <<"gender">>, impute |-> <<"TotalCharges">>],
          [scale |-> <<"tenure">>, dummy |-> <<"Contract">>],
          [dummy |-> <<"Contract">>, ordinal |-> <<"gender">>],
          [scale |-> <<"tenure", "tenure">>, dummy |-> <<"Contract">>]}

StageKeyChoices ==
    {{"load", "split", "transform"},
     {"load", "split", "transform", "publish"},
     {"split", "transform"}, {"load", "transform"}, {"load", "split"}}

DataConfig(keys, load, split, transform) ==
    [k \in keys |->
        IF k = "load" THEN load
        ELSE IF k = "split" THEN split
        ELSE IF k = "transform" THEN transform
        ELSE [bucket |-> "releases"]]

ConfigOf(keys, load, split, transform) ==
    [data |-> DataConfig(keys, load, split, transform),
     SEED |-> SEED,
     model |-> [train |-> "train params", tune |-> "tune params"]]

SampleConfigs ==
    {ConfigOf(q[1], q[2], q[3], q[4]) :
        q \in StageKeyChoices \X LoadChoices \X SplitChoices
              \X TransformChoices}

-----------------------------------------------------------------------------
(* Sample data sources                                                     *)

RowNo == BaseRow
RowYes ==
    [BaseRow EXCEPT !.customerID = "5575-GNVDE", !.gender = "Male",
                    !.Contract = "One year", !.Churn = "Yes"]
RowNo2 == [BaseRow EXCEPT !.customerID = "3668-QPYBK", !.tenure = 2]
RowYes2 ==
    [BaseRow EXCEPT !.customerID = "9237-HQITU", !.gender = "Male",
                    !.Contract = "One year", !.Churn = "Yes"]
\* A row the schema rejects (gender), with a blank TotalCharges and a
\* PaperlessBilling outside the checks table.
RowBad ==
    [BaseRow EXCEPT !.customerID = "4472-LVYGI", !.gender = OutOfDomain,
                    !.PaperlessBilling = OutOfDomain, !.TotalCharges = " "]

File(path, name, ext, frame) ==
    [path |-> path, name |-> name, ext |-> ext, frame |-> frame]

SampleFiles ==
    {File(<<>>, "telco", "csv", <<RowNo, RowYes, RowNo2, RowYes2>>),
     File(<<>>, "extra", "csv", <<RowBad>>),
     File(<<>>, "README", "txt", <<>>),
     File(<<"telco">>, "march", "csv", <<RowNo, RowYes>>),
     File(<<"telco", "telco">>, "march", "csv", <<RowYes2>>)}

MaxFiles == 2

\* Listings of at most MaxFiles distinct files.
SampleListings ==
    {l \in SeqsUpTo(SampleFiles, MaxFiles) :
        \A i, j \in 1..Len(l) : i # j => l[i] # l[j]}

\* Every permutation of 1..n.
Shuffles(n) ==
    {p \in [1..n -> 1..n] : \A i, j \in 1..n : i # j => p[i] # p[j]}

\* The rotations of 1..n.
Rotations(n) ==
    IF n = 0 THEN {<<>>}
    ELSE {[i \in 1..n |-> ((i + k - 1) % n) + 1] : k \in 0..(n - 1)}

-----------------------------------------------------------------------------
(* Specification SpecValidate: DataEngine.validate applied to a frame      *)

InitValidate ==
    /\ pc = "call"
    /\ config = NoConfig
    /\ config0 = NoConfig
    /\ files = <<>>
    /\ isDir = TRUE
    /\ readOk = {}
    /\ data \in SampleFrames
    /\ ret = NoRet
    /\ raised = "none"
    /\ stdout = <<>>
    /\ started = <<>>
    /\ completed = <<>>
    /\ attempts = NoAttempts
    /\ validated = FALSE
    /\ splits = NoSplits
    /\ transformed_ds = NoRet
    /\ results = NoRet
    /\ tuner = NoRet
    /\ artifacts = <<>>
    /\ viz_files = {}
    /\ pushed = FALSE
    /\ locals = NoLocals

\* data_validator(data): engine.py lines 52-57
data_validator ==
    /\ pc = "call"
    /\ LET r == DataEngine_validate(data)
       IN /\ ret' = r.ret
          /\ raised' = r.raised
          /\ stdout' = stdout \o r.printed
          /\ validated' = (r.raised = "none")
    /\ pc' = "returned"
    /\ started' = Append(started, "data_validator")
    /\ completed' = IF raised' = "none"
                     THEN Append(completed, "data_validator") ELSE completed
    /\ attempts' = [attempts EXCEPT !["data_validator"] = @ + 1]
    /\ UNCHANGED <<locals, config, config0, files, isDir, readOk, data, splits,
                   transformed_ds, results, tuner, artifacts, viz_files, pushed>>

NextValidate == data_validator

SpecValidate == InitValidate /\ [][NextValidate]_vars

-----------------------------------------------------------------------------
(* Specification SpecConfig: validate_data_config applied to a config      *)

InitConfig ==
    /\ pc = "call"
    /\ config \in SampleConfigs
    /\ config0 = config
    /\ files = <<>>
    /\ isDir = TRUE
    /\ readOk = {}
    /\ data = NoData
    /\ ret = NoRet
    /\ raised = "none"
    /\ stdout = <<>>
    /\ started = <<>>
    /\ completed = <<>>
    /\ attempts = NoAttempts
    /\ validated = FALSE
    /\ splits = NoSplits
    /\ transformed_ds = NoRet
    /\ results = NoRet
    /\ tuner = NoRet
    /\ artifacts = <<>>
    /\ viz_files = {}
    /\ pushed = FALSE
    /\ locals = NoLocals

\* A call of validate_data_config(config); it returns None.
ValidateDataConfig ==
    /\ pc = "call"
    /\ raised' = validate_data_config(config)
    /\ pc' = "returned"
    /\ UNCHANGED <<locals, config, config0, files, isDir, readOk, data, ret, stdout, started,
                   completed, attempts, validated, splits, transformed_ds,
                   results, tuner, artifacts, viz_files, pushed>>

NextConfig == ValidateDataConfig

SpecConfig == InitConfig /\ [][NextConfig]_vars

-----------------------------------------------------------------------------
(* Specification SpecLoad: DataEngine.load applied to a data source        *)

ValidSplit == [ratio |-> PyFloat(2), stratify |-> PyBool(TRUE)]
ValidTransform ==
    [scale |-> <<"tenure">>, dummy |-> <<"Contract">>, ordinal |-> <<"gender">>]

LoadSpecConfigs ==
    {ConfigOf({"load", "split", "transform"}, l, ValidSplit, ValidTransform) :
        l \in LoadChoices}

InitLoad ==
    /\ pc = "call"
    /\ config \in LoadSpecConfigs
    /\ config0 = config
    /\ files \in SampleListings
    /\ isDir \in BOOLEAN
    /\ readOk = {}
    /\ data = NoData
    /\ ret = NoRet
    /\ raised = "none"
    /\ stdout = <<>>
    /\ started = <<>>
    /\ completed = <<>>
    /\ attempts = NoAttempts
    /\ validated = FALSE
    /\ splits = NoSplits
    /\ transformed_ds = NoRet
    /\ results = NoRet
    /\ tuner = NoRet
    /\ artifacts = <<>>
    /\ viz_files = {}
    /\ pushed = FALSE
    /\ locals = NoLocals

\* A call of DataEngine.load(config.data.load) during which the reads of
\* the files at the positions ok succeed.
LoadCall ==
    /\ pc = "call"
    /\ \E ok \in SUBSET (1..Len(files)) :
          LET r == DataEngine_load(config.data.load, files, isDir, ok)
          IN /\ readOk' = ok
             /\ ret' = r.ret
             /\ raised' = r.raised
             /\ stdout' = r.printed
    /\ pc' = "returned"
    /\ UNCHANGED <<locals, config, config0, files, isDir, data, started, completed,
                   attempts, validated, splits, transformed_ds, results, tuner,
                   artifacts, viz_files, pushed>>

NextLoad == LoadCall

SpecLoad == InitLoad /\ [][NextLoad]_vars

-----------------------------------------------------------------------------
(* Specification SpecSplit: DataEngine.split applied to a frame            *)

MaxSplitRows == 4

SplitFrames == SeqsUpTo({RowNo, RowYes, RowBad}, MaxSplitRows)

SplitSpecChoices ==
    {[ratio |-> r, stratify |-> b] :
        <<r, b>> \in {PyFloat(2), PyFloat(5), PyFloat(0), PyFloat(10),
                      PyFloat(-5), PyInt(1), PyInt(2), PyStr("a fifth")}
                     \X {PyBool(TRUE), PyBool(FALSE)}}
    \cup {[ratio |-> PyFloat(2)], [stratify |-> PyBool(FALSE)]}

SplitSpecConfigs ==
    {ConfigOf({"load", "split", "transform"},
              [strategy |-> PyStr("dir"), args |-> DirArgs], sp, ValidTransform) :
        sp \in SplitSpecChoices}

InitSplit ==
    /\ pc = "call"
    /\ config \in SplitSpecConfigs
    /\ config0 = config
    /\ files = <<>>
    /\ isDir = TRUE
    /\ readOk = {}
    /\ data \in SplitFrames
    /\ ret = NoRet
    /\ raised = "none"
    /\ stdout = <<>>
    /\ started = <<>>
    /\ completed = <<>>
    /\ attempts = NoAttempts
    /\ validated = FALSE
    /\ splits = NoSplits
    /\ transformed_ds = NoRet
    /\ results = NoRet
    /\ tuner = NoRet
    /\ artifacts = <<>>
    /\ viz_files = {}
    /\ pushed = FALSE
    /\ locals = NoLocals

\* A call of DataEngine.split(config.data.split, data, config.SEED): the
\* generator may draw any shuffle of the rows.
SplitCall ==
    /\ pc = "call"
    /\ \E perm \in Shuffles(Len(data)) :
       \E r \in DataEngine_split(config.data.split, data, perm) :
          /\ raised' = r.raised
          /\ splits' = IF r.raised = "none"
                       THEN [X_train |-> r.X_train, X_test |-> r.X_test,
                             y_train |-> r.y_train, y_test |-> r.y_test]
                       ELSE NoSplits
    /\ pc' = "returned"
    /\ UNCHANGED <<locals, config, config0, files, isDir, readOk, data, ret, stdout,
                   started, completed, attempts, validated, transformed_ds,
                   results, tuner, artifacts, viz_files, pushed>>

NextSplit == SplitCall

SpecSplit == InitSplit /\ [][NextSplit]_vars

-----------------------------------------------------------------------------
(* Specification SpecTransform: DataEngine.transform, statement by         *)
(* statement (data.py lines 452-504)                                       *)

MaxTransformRows == 2

\* Rows as the loaders deliver them.
TransformRows == Range(scan_csv(<<RowNo, RowYes, RowBad>>))

\* The four frames DataEngine.split returns for the train rows and the test
\* rows; neither part is empty.
SplitsOf(train, test) ==
    [X_train |-> drop_Churn(train), X_test |-> drop_Churn(test),
     y_train |-> select_Churn(train), y_test |-> select_Churn(test)]

TransformSplits ==
    {SplitsOf(q[1], q[2]) :
        q \in (SeqsUpTo(TransformRows, MaxTransformRows) \ {<<>>})
              \X (SeqsUpTo(TransformRows, MaxTransformRows) \ {<<>>})}

TransformSpecChoices ==
    {ValidTransform,
     [scale |-> <<"tenure", "TotalCharges">>, dummy |-> <<"gender", "Partner">>,
      ordinal |-> <<>>],
     [scale |-> <<"gender">>, dummy |-> <<"Contract">>, ordinal |-> <<>>],
     [scale |-> <<"tenure">>, dummy |-> <<"Contract">>]}

TransformSpecConfigs ==
    {ConfigOf({"load", "split", "transform"},
              [strategy |-> PyStr("dir"), args |-> DirArgs], ValidSplit, tc) :
        tc \in TransformSpecChoices}

InitTransform ==
    /\ pc = "call"
    /\ config \in TransformSpecConfigs
    /\ config0 = config
    /\ files = <<>>
    /\ isDir = TRUE
    /\ readOk = {}
    /\ data = NoData
    /\ ret = NoRet
    /\ raised = "none"
    /\ stdout = <<>>
    /\ started = <<>>
    /\ completed = <<>>
    /\ attempts = NoAttempts
    /\ validated = FALSE
    /\ splits \in TransformSplits
    /\ transformed_ds = NoRet
    /\ results = NoRet
    /\ tuner = NoRet
    /\ artifacts = <<>>
    /\ viz_files = {}
    /\ pushed = FALSE
    /\ locals = NoLocals

\* Lines 461-468: the ColumnTransformer is built from config.scale,
\* config.dummy and config.ordinal, and the LabelBinarizer is built.
tf_construct ==
    /\ pc = "call"
    /\ LET transform_config == config.data.transform
       IN IF \E k \in {"scale", "dummy", "ordinal"} :
                  ~BoxHas(transform_config, k)
          THEN /\ raised' = "BoxKeyError"
               /\ pc' = "returned"
               /\ locals' = locals
          ELSE /\ locals' =
                    [locals EXCEPT
                       !.feature_transformer =
                          [kind |-> "ColumnTransformer",
                           scale |-> transform_config.scale,
                           dummy |-> transform_config.dummy,
                           ordinal |-> transform_config.ordinal],
                       !.label_transformer = [kind |-> "LabelBinarizer"]]
               /\ pc' = "fit_features"
               /\ raised' = raised
    /\ UNCHANGED <<config, config0, files, isDir, readOk, data, ret, stdout,
                   started, completed, attempts, validated, splits,
                   transformed_ds, results, tuner, artifacts, viz_files, pushed>>

\* The mutant: the feature transformer is fitted on the train and the test
\* rows together.
tf_fit_features_OnBothSplits ==
    /\ pc = "fit_features"
    /\ LET fitted == fit_features(config.data.transform,
                                  splits.X_train \o splits.X_test)
       IN IF fitted.raised # "none"
          THEN /\ raised' = fitted.raised
               /\ pc' = "returned"
               /\ locals' = locals
          ELSE /\ locals' = [locals EXCEPT !.feature_transformer = fitted]
               /\ pc' = "fit_labels"
               /\ raised' = raised
    /\ UNCHANGED <<config, config0, files, isDir, readOk, data, ret, stdout,
                   started, completed, attempts, validated, splits,
                   transformed_ds, results, tuner, artifacts, viz_files, pushed>>

\* Line 469: feature_transformer.fit(X_train.to_pandas())
tf_fit_features ==
    /\ pc = "fit_features"
    /\ LET fitted == fit_features(config.data.transform, splits.X_train)
       IN IF fitted.raised # "none"
          THEN /\ raised' = fitted.raised
               /\ pc' = "returned"
               /\ locals' = locals
          ELSE /\ locals' = [locals EXCEPT !.feature_transformer = fitted]
               /\ pc' = "fit_labels"
               /\ raised' = raised
    /\ UNCHANGED <<config, config0, files, isDir, readOk, data, ret, stdout,
                   started, completed, attempts, validated, splits,
                   transformed_ds, results, tuner, artifacts, viz_files, pushed>>

\* Line 470: label_transformer.fit(y_train.to_pandas())
tf_fit_labels ==
    /\ pc = "fit_labels"
    /\ locals' = [locals EXCEPT !.label_transformer = fit_labels(splits.y_train)]
    /\ pc' = "save_to_pickle"
    /\ UNCHANGED <<config, config0, files, isDir, readOk, data, ret, raised,
                   stdout, started, completed, attempts, validated, splits,
                   transformed_ds, results, tuner, artifacts, viz_files, pushed>>

\* Lines 471-485: one turn of the loop that pickles the preprocessors.
tf_save_to_pickle ==
    /\ pc = "save_to_pickle"
    /\ LET preprocessor_paths == <<"feature_transformer_.pkl",
                                   "label_binarizer.pkl">>
           preprocessors == <<locals.feature_transformer,
                              locals.label_transformer>>
           i == Len(artifacts) + 1
       IN /\ artifacts' = Append(artifacts, Pickle(preprocessor_paths[i],
                                                   preprocessors[i]))
          /\ pc' = IF i = Len(preprocessor_paths) THEN "transform" ELSE pc
    /\ UNCHANGED <<config, config0, files, isDir, readOk, data, ret, raised,
                   stdout, started, completed, attempts, validated, splits,
                   transformed_ds, results, tuner, viz_files, pushed, locals>>

\* Lines 487-492: the next argument of TransformerOutput(...) is computed,
\* in the order X_train, X_test, y_train, y_test; after the fourth the
\* TransformerOutput is built.
tf_transform ==
    /\ pc = "transform"
    /\ LET k == Len(locals.arrays) + 1
           r == IF k = 1
                THEN transform_features(locals.feature_transformer,
                                        splits.X_train)
                ELSE IF k = 2
                THEN transform_features(locals.feature_transformer,
                                        splits.X_test)
                ELSE IF k = 3
                THEN transform_labels(locals.label_transformer, splits.y_train)
                ELSE transform_labels(locals.label_transformer, splits.y_test)
       IN IF r.raised # "none"
          THEN /\ raised' = r.raised
               /\ pc' = "returned"
               /\ locals' = locals
          ELSE LET arrays == Append(locals.arrays, r.array)
               IN /\ locals' =
                       [locals EXCEPT
                          !.arrays = arrays,
                          !.transformed_dataset =
                             IF k = 4
                             THEN TransformerOutput(arrays[1], arrays[2],
                                                    arrays[3], arrays[4])
                             ELSE @]
                  /\ pc' = IF k = 4 THEN "savez" ELSE pc
                  /\ raised' = raised
    /\ UNCHANGED <<config, config0, files, isDir, readOk, data, ret, stdout,
                   started, completed, attempts, validated, splits,
                   transformed_ds, results, tuner, artifacts, viz_files, pushed>>

\* Lines 493-502: np.savez of train_dataset, then of test_dataset.
tf_savez ==
    /\ pc = "savez"
    /\ LET ds == locals.transformed_dataset
           first == ~\E i \in 1..Len(artifacts) :
                        artifacts[i].path = "train_dataset.npz"
       IN /\ artifacts' =
               Append(artifacts,
                      IF first
                      THEN Savez("train_dataset.npz", ds.X_train, ds.y_train)
                      ELSE Savez("test_dataset.npz", ds.X_test, ds.y_test))
          /\ pc' = IF first THEN pc ELSE "return"
    /\ UNCHANGED <<config, config0, files, isDir, readOk, data, ret, raised,
                   stdout, started, completed, attempts, validated, splits,
                   transformed_ds, results, tuner, viz_files, pushed, locals>>

\* Line 504: return transformed_dataset
tf_return ==
    /\ pc = "return"
    /\ transformed_ds' = locals.transformed_dataset
    /\ pc' = "returned"
    /\ UNCHANGED <<config, config0, files, isDir, readOk, data, ret, raised,
                   stdout, started, completed, attempts, validated, splits,
                   results, tuner, artifacts, viz_files, pushed, locals>>

NextTransform ==
    \/ tf_construct
    \/ tf_fit_features
    \/ tf_fit_labels
    \/ tf_save_to_pickle
    \/ tf_transform
    \/ tf_savez
    \/ tf_return

SpecTransform == InitTransform /\ [][NextTransform]_vars
-----------------------------------------------------------------------------
(* The flow: engine.py                                                     *)

\* retries= of each @task decorator (lines 20-23, 39-44, 52, 60-63, 74-77,
\* 99-102, 114-117, 129-133, 156-161); a task declared without it has none.
Retries(task) ==
    IF task = "data_loader" THEN 3
    ELSE IF task = "visualize_insights" THEN 2
    ELSE IF task = "push_artifacts" THEN 3
    ELSE 0

\* The mutant: the flow goes on to the next task when a task has failed.
AfterAttempt_GoesOn(task, exc, next) ==
    /\ attempts' = [attempts EXCEPT ![task] = @ + 1]
    /\ started' = IF attempts[task] = 0 THEN Append(started, task) ELSE started
    /\ raised' = exc
    /\ completed' = IF exc = "none" THEN Append(completed, task) ELSE completed
    /\ pc' = IF exc = "none" THEN next
             ELSE IF attempts[task] + 1 <= Retries(task) THEN task
             ELSE next

\* One attempt of a task called from the flow body.  The call returns when
\* the attempt succeeds; a failed attempt is retried while retries are left;
\* after the last one the exception leaves the call and ends workflow().
AfterAttempt(task, exc, next) ==
    /\ attempts' = [attempts EXCEPT ![task] = @ + 1]
    /\ started' = IF attempts[task] = 0 THEN Append(started, task) ELSE started
    /\ raised' = exc
    /\ completed' = IF exc = "none" THEN Append(completed, task) ELSE completed
    /\ pc' = IF exc = "none" THEN next
             ELSE IF attempts[task] + 1 <= Retries(task) THEN task
             ELSE "failed"

\* Pilot.setup(filepath): reads the YAML file into a Box and checks it with
\* validate_data_config once, at startup.
Pilot_setup(cfg) ==
    [config |-> cfg, raised |-> validate_data_config(cfg)]

\* The configuration files the flow is started on.
WorkflowConfigs ==
    {ConfigOf(q[1], q[2], q[3], q[4]) :
        q \in {{"load", "split", "transform"},
               {"load", "split", "transform", "publish"}}
              \X LoadChoices
              \X {[ratio |-> PyFloat(2), stratify |-> PyBool(TRUE)],
                  [ratio |-> PyFloat(5), stratify |-> PyBool(TRUE)],
                  [ratio |-> PyFloat(5), stratify |-> PyBool(FALSE)],
                  [ratio |-> PyFloat(10), stratify |-> PyBool(FALSE)],
                  [ratio |-> PyFloat(-5), stratify |-> PyBool(FALSE)],
                  [ratio |-> PyFloat(15), stratify |-> PyBool(FALSE)],
                  [ratio |-> PyInt(1), stratify |-> PyBool(FALSE)],
                  [stratify |-> PyBool(FALSE)]}
              \X {ValidTransform,
                  [scale |-> <<"tenure">>, dummy |-> <<"Contract">>,
                   ordinal |-> <<"gender", "Partner">>],
                  [scale |-> <<"tenure">>, dummy |-> <<"tenure">>,
                   ordinal |-> <<"gender">>]}}

Init ==
    /\ pc = "setup_pipeline"
    /\ config = NoConfig
    /\ config0 = NoConfig
    /\ files \in SampleListings
    /\ isDir \in BOOLEAN
    /\ readOk = {}
    /\ data = NoData
    /\ ret = NoRet
    /\ raised = "none"
    /\ stdout = <<>>
    /\ started = <<>>
    /\ completed = <<>>
    /\ attempts = NoAttempts
    /\ validated = FALSE
    /\ splits = NoSplits
    /\ transformed_ds = NoRet
    /\ results = NoRet
    /\ tuner = NoRet
    /\ artifacts = <<>>
    /\ viz_files = {}
    /\ pushed = FALSE
    /\ locals = NoLocals

\* setup_pipeline(config_filepath): lines 20-36, called at 182-188
setup_pipeline ==
    /\ pc = "setup_pipeline"
    /\ \E cfg \in WorkflowConfigs :
          LET r == Pilot_setup(cfg)
          IN /\ config' = r.config
             /\ config0' = r.config
             /\ AfterAttempt("setup_pipeline", r.raised, "data_loader")
    /\ UNCHANGED <<locals, files, isDir, readOk, data, ret, stdout, validated, splits,
                   transformed_ds, results, tuner, artifacts, viz_files, pushed>>

\* The mutant: the loader stores the resolved path back into the config.
data_loader_WritesConfig ==
    /\ pc = "data_loader"
    /\ \E ok \in SUBSET (1..Len(files)) :
          LET r == DataEngine_load(config.data.load, files, isDir, ok)
          IN /\ readOk' = ok
             /\ stdout' = r.printed
             /\ data' = IF r.raised = "none" THEN r.ret ELSE data
             /\ AfterAttempt("data_loader", r.raised, "data_splits")
    /\ config' = [config EXCEPT !.data.load.args = [dir |-> "Path(./data)"]]
    /\ UNCHANGED <<locals, config0, files, isDir, ret, validated, splits,
                   transformed_ds, results, tuner, artifacts, viz_files, pushed>>

\* data_loader(config): lines 39-49, called at 191.  The reads of the files
\* at the positions ok succeed during this attempt.
data_loader ==
    /\ pc = "data_loader"
    /\ \E ok \in SUBSET (1..Len(files)) :
          LET r == DataEngine_load(config.data.load, files, isDir, ok)
          IN /\ readOk' = ok
             /\ stdout' = r.printed
             /\ data' = IF r.raised = "none" THEN r.ret ELSE data
             /\ AfterAttempt("data_loader", r.raised, "data_splits")
    /\ UNCHANGED <<locals, config, config0, files, isDir, ret, validated, splits,
                   transformed_ds, results, tuner, artifacts, viz_files, pushed>>

\* data_splits(config, data): lines 60-71, called at 194.  The flow is
\* explored on the rotations of the row order as the generator's shuffles.
data_splits ==
    /\ pc = "data_splits"
    /\ \E perm \in Rotations(Len(data)) :
       \E r \in DataEngine_split(config.data.split, data, perm) :
          /\ splits' = IF r.raised = "none"
                       THEN [X_train |-> r.X_train, X_test |-> r.X_test,
                             y_train |-> r.y_train, y_test |-> r.y_test]
                       ELSE splits
          /\ AfterAttempt("data_splits", r.raised, "data_transformer")
    /\ stdout' = <<>>
    /\ UNCHANGED <<locals, config, config0, files, isDir, readOk, data, ret, validated,
                   transformed_ds, results, tuner, artifacts, viz_files, pushed>>

\* data_transformer(config, X_train, X_test, y_train, y_test, artifact_dir):
\* lines 74-96, called at 197-204
data_transformer ==
    /\ pc = "data_transformer"
    /\ LET r == DataEngine_transform(config.data.transform, splits)
       IN /\ transformed_ds' = IF r.raised = "none" THEN r.ret
                               ELSE transformed_ds
          /\ artifacts' = artifacts \o r.written
          /\ AfterAttempt("data_transformer", r.raised, "train_models")
    /\ stdout' = <<>>
    /\ UNCHANGED <<locals, config, config0, files, isDir, readOk, data, ret, validated,
                   splits, results, tuner, viz_files, pushed>>

\* LearnLab.train_experiments and LearnLab.tune_models: they return or raise.
LearnLab_outcomes == {"none", "Exception"}

\* The field of the TransformerOutput a later stage may try to assign while
\* it runs ("none": it assigns no field).
LearnLab_assigns == {"none", "X_train", "X_test", "y_train", "y_test"}

\* transformed_ds.<name> = <an empty array> inside a stage, or no assignment.
TryAssign(obj, name) ==
    IF name = "none"
    THEN [obj |-> obj, raised |-> "none"]
    ELSE TransformerOutput_setattr(obj, name,
                                   [by |-> obj[name].by, of |-> <<>>])

\* train_models(config, transformed_ds): lines 99-111, called at 207
train_models ==
    /\ pc = "train_models"
    /\ \E name \in LearnLab_assigns, outcome \in LearnLab_outcomes :
          LET a == TryAssign(transformed_ds, name)
              exc == IF a.raised # "none" THEN a.raised ELSE outcome
          IN /\ transformed_ds' = a.obj
             /\ results' = IF exc = "none"
                           THEN [metrics_of |-> config.model.train]
                           ELSE results
             /\ AfterAttempt("train_models", exc, "tune_models")
    /\ stdout' = <<>>
    /\ UNCHANGED <<locals, config, config0, files, isDir, readOk, data, ret, validated,
                   splits, tuner, artifacts, viz_files, pushed>>

\* tune_models(config, transformed_ds, model_dir): lines 114-126, called at
\* 208-210
tune_models ==
    /\ pc = "tune_models"
    /\ \E name \in LearnLab_assigns, outcome \in LearnLab_outcomes :
          LET a == TryAssign(transformed_ds, name)
              exc == IF a.raised # "none" THEN a.raised ELSE outcome
          IN /\ transformed_ds' = a.obj
             /\ tuner' = IF exc = "none"
                         THEN [studies_of |-> config.model.tune] ELSE tuner
             /\ AfterAttempt("tune_models", exc, "visualize_insights")
    /\ stdout' = <<>>
    /\ UNCHANGED <<locals, config, config0, files, isDir, readOk, data, ret, validated,
                   splits, results, artifacts, viz_files, pushed>>

\* The Vizard plots visualize_insights asks for, from its keyword arguments:
\* lines 138-151.
Vizard_calls(kwargs) ==
    (IF kwargs.data # NoRet /\ kwargs.viz_dir # NoRet
     THEN <<"plot_target_dist", "plot_cust_info", "plot_num_dist">>
     ELSE <<>>)
    \o (IF kwargs.results # NoRet /\ kwargs.viz_dir # NoRet
        THEN <<"plot_training_results">> ELSE <<>>)
    \o (IF kwargs.tuner # NoRet /\ kwargs.viz_dir # NoRet
        THEN <<"plot_optuna_study">> ELSE <<>>)

\* visualize_insights(data=, results=, tuner=, viz_dir=): lines 129-152,
\* called at 213-218.  The plots drawn before a plot raises stay in viz_dir.
visualize_insights ==
    /\ pc = "visualize_insights"
    /\ LET calls == Vizard_calls([data |-> [frame |-> data], results |-> results,
                                  tuner |-> tuner, viz_dir |-> [dir |-> "viz"]])
       IN \E done \in 0..Len(calls) :
             /\ viz_files' = viz_files \cup Range(SubSeq(calls, 1, done))
             /\ AfterAttempt("visualize_insights",
                             IF done = Len(calls) THEN "none" ELSE "Exception",
                             "push_artifacts")
    /\ stdout' = <<>>
    /\ UNCHANGED <<locals, config, config0, files, isDir, readOk, data, ret, validated,
                   splits, transformed_ds, results, tuner, artifacts, pushed>>

\* push_artifacts(tuner, viz_dir, artifact_dir): lines 156-166, called at 221
push_artifacts ==
    /\ pc = "push_artifacts"
    /\ \E exc \in {"none", "Exception"} :
          /\ pushed' = (exc = "none")
          /\ AfterAttempt("push_artifacts", exc, "done")
    /\ stdout' = <<>>
    /\ UNCHANGED <<locals, config, config0, files, isDir, readOk, data, ret, validated,
                   splits, transformed_ds, results, tuner, artifacts, viz_files>>

Next ==
    \/ setup_pipeline
    \/ data_loader
    \/ data_splits
    \/ data_transformer
    \/ train_models
    \/ tune_models
    \/ visualize_insights
    \/ push_artifacts

Spec == Init /\ [][Next]_vars

-----------------------------------------------------------------------------
(* Properties                                                              *)

\* The categorical columns: the columns the checks table gives an
\* allowed-value set.
CategoricalColumns ==
    {"gender", "SeniorCitizen", "Partner", "Dependents", "PhoneService",
     "MultipleLines", "InternetService", "OnlineSecurity", "OnlineBackup",
     "DeviceProtection", "TechSupport", "StreamingTV", "StreamingMovies",
     "Contract", "PaperlessBilling", "PaymentMethod", "Churn"}

\* C1: DataEngine.validate raises on every frame that has a row whose value
\* in a categorical column lies outside the allowed-value set the checks
\* table declares for that column.
C1_OutOfDomainRejected ==
    (/\ pc = "returned"
     /\ \E i \in 1..Len(data) : \E c \in CategoricalColumns :
            data[i][c] \notin checks[c][1].allowed)
        => raised # "none"

\* C2: when data_splits starts, data_validator has completed and the loaded
\* frame passes the schema.
C2_ValidatedBeforeSplit ==
    ("data_splits" \in Range(started))
        => /\ "data_validator" \in Range(completed)
           /\ validated
           /\ SchemaFailures(DataSchema, to_pandas(data)) = {}

\* A config whose keys and values are valid apart from the split ratio.
ValidApartFromRatio(cfg) ==
    /\ DOMAIN cfg.data = {"load", "split", "transform"}
    /\ "strategy" \in DOMAIN cfg.data.load
    /\ cfg.data.load.strategy \in {PyStr("dir"), PyStr("aws_s3")}
    /\ DOMAIN cfg.data.split = {"ratio", "stratify"}
    /\ cfg.data.split.stratify.type = "bool"
    /\ DOMAIN cfg.data.transform = {"scale", "dummy", "ordinal"}
    /\ AllUnique(cfg.data.transform.scale \o cfg.data.transform.dummy
                 \o cfg.data.transform.ordinal)

\* C3: validate_data_config raises ConfigValidationError for every split
\* ratio above 1.0 or below 0.0 when the rest of the config is valid.
C3_RatioOutOfRangeRejected ==
    (/\ pc = "returned"
     /\ ValidApartFromRatio(config)
     /\ config.data.split.ratio.type \in {"float", "int"}
     /\ \/ config.data.split.ratio.value > 10
        \/ config.data.split.ratio.value < 0)
        => raised = "ConfigValidationError"

\* A config with a key or strategy outside the allow-lists.
HasUnknownKey(cfg) ==
    \/ \E k \in DOMAIN cfg.data : k \notin {"load", "split", "transform"}
    \/ /\ "load" \in DOMAIN cfg.data
       /\ "strategy" \in DOMAIN cfg.data.load
       /\ cfg.data.load.strategy \notin {PyStr("dir"), PyStr("aws_s3")}
    \/ /\ "split" \in DOMAIN cfg.data
       /\ \E k \in DOMAIN cfg.data.split : k \notin {"ratio", "stratify"}
    \/ /\ "transform" \in DOMAIN cfg.data
       /\ \E k \in DOMAIN cfg.data.transform :
             k \notin {"scale", "dummy", "ordinal"}

\* C4: validate_data_config raises ConfigValidationError whenever the config
\* has an unknown stage key, an unknown strategy, an unknown split key or an
\* unknown transform key.
C4_UnknownKeysRejected ==
    (pc = "returned" /\ HasUnknownKey(config))
        => raised = "ConfigValidationError"

\* C5: whenever validate_data_config does not return normally, what it
\* raises is ConfigValidationError.
C5_SingleErrorKind ==
    pc = "returned" => raised \in {"none", "ConfigValidationError"}

\* No CSV object of the listing is read successfully.
NoObjectRead(listing, folder_path, ok) ==
    \A i \in 1..Len(listing) :
        (/\ listing[i].ext = "csv"
         /\ folder_path = "" \/ (Len(listing[i].path) >= 1
                                 /\ listing[i].path[1] = folder_path))
        => ~\E j \in ok : /\ listing[j].ext = "csv"
                          /\ listing[j].name = listing[i].name
                          /\ listing[j].path =
                                (IF folder_path = "" THEN <<>>
                                 ELSE <<folder_path>>) \o listing[i].path

\* C6: loading raises the generic Exception, and so returns no frame, when
\* the directory holds no *.csv file or the path is no directory, when no
\* .csv object of the bucket listing is read successfully, and when the
\* strategy is None.
C6_NoFilesRaises ==
    (pc = "returned" /\ "strategy" \in DOMAIN config.data.load)
        => LET load == config.data.load
           IN /\ load.strategy = PyNone => raised = "Exception"
              /\ (/\ load.strategy = PyStr("dir")
                  /\ \/ ~isDir
                     \/ ~\E i \in 1..Len(files) :
                            files[i].path = <<>> /\ files[i].ext = "csv")
                    => raised = "Exception"
              /\ (/\ load.strategy = PyStr("aws_s3")
                  /\ NoObjectRead(files, load.args.folder_path, readOk))
                    => raised = "Exception"

\* C6 witness: a directory that holds files, none of them *.csv.
C6_Witness ==
    /\ pc = "returned"
    /\ "strategy" \in DOMAIN config.data.load
    /\ config.data.load.strategy = PyStr("dir")
    /\ isDir
    /\ Len(files) > 0
    /\ \A i \in 1..Len(files) : files[i].path # <<>> \/ files[i].ext # "csv"
    /\ raised = "Exception"

\* The cells of a frame that break a rule of their column, as
\* <<column, row position>>.
FailingCells(frame) ==
    {p \in Range(Columns) \X (1..Len(frame)) :
        LET col == DataSchema[p[1]]
            v == frame[p[2]][p[1]]
        IN \/ col.dtype = "object" /\ v = Null
           \/ /\ ~(col.dtype = "object" /\ v = Null)
              /\ \E k \in 1..Len(col.checks) : ~CheckPasses(col.checks[k], v)}

\* C7: DataEngine.validate reports the failures of every column, not only of
\* the first failing one, prints the failure table and raises once; a frame
\* without failures is returned as it was given and nothing is raised.
C7_AllFailuresCollected ==
    pc = "returned"
        => IF FailingCells(data) = {}
           THEN raised = "none" /\ ret = data /\ stdout = <<>>
           ELSE /\ raised = "Exception"
                /\ attempts["data_validator"] = 1
                /\ Len(stdout) = 4
                /\ stdout[2].kind = "failure_cases"
                /\ {<<e.column, e.index + 1>> : e \in stdout[2].payload}
                      = FailingCells(data)

\* C7 witness: a rejected frame with failures in two columns.
C7_Witness ==
    /\ pc = "returned"
    /\ raised = "Exception"
    /\ Len(stdout) = 4
    /\ Cardinality({e.column : e \in stdout[2].payload}) >= 2

\* The number of times x occurs in s.
Count(x, s) == Cardinality({i \in 1..Len(s) : s[i] = x})

\* The rows of a feature part with their labels put back.
Rejoin(X, y) ==
    [i \in 1..Len(X) |->
        [c \in (DOMAIN X[i]) \cup {"Churn"} |->
            IF c = "Churn" THEN y[i].Churn ELSE X[i][c]]]

\* The four parts partition the rows of the frame.
IsPartition(frame, s) ==
    /\ Len(s.X_train) + Len(s.X_test) = Len(frame)
    /\ Len(s.y_train) = Len(s.X_train)
    /\ Len(s.y_test) = Len(s.X_test)
    /\ \A i \in 1..Len(s.X_train) :
          "Churn" \notin DOMAIN s.X_train[i] /\ DOMAIN s.y_train[i] = {"Churn"}
    /\ \A i \in 1..Len(s.X_test) :
          "Churn" \notin DOMAIN s.X_test[i] /\ DOMAIN s.y_test[i] = {"Churn"}
    /\ LET train == Rejoin(s.X_train, s.y_train)
           test == Rejoin(s.X_test, s.y_test)
       IN \A r \in Range(frame) \cup Range(train) \cup Range(test) :
             Count(r, frame) = Count(r, train) + Count(r, test)

\* A split config that validate_data_config accepts, with the ratio in the
\* range 0.0 to 1.0.
AcceptedSplit(cfg) ==
    /\ DOMAIN cfg.data.split = {"ratio", "stratify"}
    /\ cfg.data.split.stratify.type = "bool"
    /\ cfg.data.split.ratio.type \in {"float", "int"}
    /\ cfg.data.split.ratio.value >= 0
    /\ cfg.data.split.ratio.value <= 10

\* C8 as stated: for every frame and every accepted ratio and stratify
\* setting, DataEngine.split returns parts that partition the rows.
C8_SplitAlwaysPartitions ==
    (pc = "returned" /\ AcceptedSplit(config))
        => raised = "none" /\ IsPartition(data, splits)

\* C8 as amended: whenever DataEngine.split returns, the parts it returns
\* partition the rows of the frame: every row is in exactly one of train and
\* test, the counts add up, the feature parts lack Churn and the label parts
\* hold only Churn.
C8_SplitPartitions ==
    (pc = "returned" /\ raised = "none") => IsPartition(data, splits)

\* C8 witness: a stratified split of four rows or more that returned.
C8_Witness ==
    /\ pc = "returned"
    /\ raised = "none"
    /\ "stratify" \in DOMAIN config.data.split
    /\ Truthy(config.data.split.stratify)
    /\ Len(data) >= 4
    /\ Len(splits.X_test) >= 2
    /\ Len(splits.X_train) >= 2

\* C9: once loaded, the configuration never changes, whatever the tasks do
\* and whether they return or raise.
C9_ConfigReadOnly ==
    [][config # NoConfig => config' = config]_vars

\* C9 witness: every task has run and the configuration is as it was loaded.
C9_Witness ==
    /\ pc = "done"
    /\ pushed
    /\ config # NoConfig
    /\ config = config0

\* The tasks started so far are the first ones of the flow, in its order,
\* and all of them but possibly the last have completed.
LinearSoFar ==
    /\ Len(started) <= Len(FlowTasks)
    /\ started = SubSeq(FlowTasks, 1, Len(started))
    /\ Len(completed) <= Len(started)
    /\ completed = SubSeq(started, 1, Len(completed))
    /\ Len(completed) >= Len(started) - 1
    /\ pc = "failed" => Len(completed) = Len(started) - 1
    /\ pc \in Range(FlowTasks) =>
          /\ pc = FlowTasks[Len(completed) + 1]
          /\ Len(started) = Len(completed) + (IF attempts[pc] > 0 THEN 1 ELSE 0)
    /\ pc = "done" => completed = FlowTasks
    /\ pushed => completed = FlowTasks

\* C10: the tasks start in the order of the flow, each only after the one
\* before it has completed, and once a task has failed no other task starts.
C10_LinearStages ==
    /\ []LinearSoFar
    /\ [][pc = "failed" => (pc' = "failed" /\ started' = started)]_vars

\* C10 witness: train_models failed after the four tasks before it completed.
C10_Witness ==
    /\ pc = "failed"
    /\ started =
         <<"setup_pipeline", "data_loader", "data_splits", "data_transformer",
           "train_models">>
    /\ completed =
         <<"setup_pipeline", "data_loader", "data_splits", "data_transformer">>
    /\ ~pushed


\* The positions in the artifact directory of the dataset files np.savez
\* has written.
DatasetFiles ==
    {i \in 1..Len(artifacts) :
        artifacts[i].path \in {"train_dataset.npz", "test_dataset.npz"}}

\* A TransformerOutput exists only after the one call of DataEngine.transform
\* has returned; it then has exactly the four fields, and train_dataset and
\* test_dataset are on disk, each written once, holding its arrays.
TransformerOutputWritten ==
    /\ attempts["data_transformer"] <= 1
    /\ transformed_ds = NoRet => DatasetFiles = {}
    /\ transformed_ds # NoRet =>
          /\ "data_transformer" \in Range(completed)
          /\ DOMAIN transformed_ds = {"X_train", "X_test", "y_train", "y_test"}
          /\ Cardinality(DatasetFiles) = 2
          /\ \E i, j \in DatasetFiles :
                /\ artifacts[i] = Savez("train_dataset.npz",
                                        transformed_ds.X_train,
                                        transformed_ds.y_train)
                /\ artifacts[j] = Savez("test_dataset.npz",
                                        transformed_ds.X_test,
                                        transformed_ds.y_test)

\* C11: the transformer output is created once by the DataEngine.transform
\* call, holds exactly four arrays, is on disk as train_dataset and
\* test_dataset by the time transform has returned, and no later stage
\* changes any of its four fields: an assignment raises and leaves it as it
\* was.
C11_TransformerOutputFrozen ==
    /\ []TransformerOutputWritten
    /\ [][transformed_ds # NoRet => transformed_ds' = transformed_ds]_vars

\* C11 witness: a later stage tried to assign a field of the output that
\* transform had returned and written, and the assignment raised.
C11_Witness ==
    /\ transformed_ds # NoRet
    /\ Cardinality(DatasetFiles) = 2
    /\ "train_models" \in Range(completed)
    /\ pc = "failed"
    /\ raised = "FrozenInstanceError"

\* The most attempts each task gets: one plus its retries.
MostAttempts(task) ==
    IF task \in {"data_loader", "push_artifacts"} THEN 4
    ELSE IF task = "visualize_insights" THEN 3
    ELSE 1

\* The stages of the pipeline in their order, validation included.
Stages ==
    <<"setup_pipeline", "data_loader", "data_validator", "data_splits",
      "data_transformer", "train_models", "tune_models", "visualize_insights",
      "push_artifacts">>

\* The flow has gone past stage k: a later stage has started or the flow has
\* ended normally.
GonePast(k) ==
    \/ pc = "done"
    \/ \E j \in (k + 1)..Len(Stages) : Stages[j] \in Range(started)

\* No task is attempted more often than its retries allow; a stage starts
\* only after the one before it has succeeded; a failed task is attempted
\* again while attempts are left, and the flow fails when they are used up.
RetriesBounded(stages) ==
    /\ \A t \in Tasks : attempts[t] <= MostAttempts(t)
    /\ \A k \in 2..Len(started) : started[k - 1] \in Range(completed)
    /\ pc \in Range(FlowTasks) => attempts[pc] < MostAttempts(pc)
    /\ pc = "failed" =>
          LET t == started[Len(started)]
          IN /\ attempts[t] = MostAttempts(t)
             /\ raised # "none"
             /\ t \notin Range(completed)
    /\ \A k \in 1..Len(stages) :
          LET t == stages[k]
          IN (t \in Range(completed) \/ (t \in Range(Stages) /\
                \E j \in 1..Len(Stages) : Stages[j] = t /\ GonePast(j)))
                => /\ attempts[t] >= 1
                   /\ MostAttempts(t) = 1 => attempts[t] = 1

\* C12: data_loader and push_artifacts are attempted at most 4 times and
\* visualize_insights at most 3 times; setup, validate, split, transform,
\* train and tune are attempted exactly once; the next stage starts only
\* after an attempt of the current one has succeeded, and the flow fails once
\* the attempts are used up.
C12_RetryBounds == RetriesBounded(Stages)

\* The same for the tasks that workflow() calls: every stage but validation.
C12_RetryBoundsOfCalledTasks == RetriesBounded(FlowTasks)

\* A run in which data_loader failed three times and succeeded at its fourth
\* attempt, visualize_insights succeeded at its third, and the flow ended.
C12_Retried ==
    /\ pc = "done"
    /\ attempts["data_loader"] = 4
    /\ attempts["visualize_insights"] = 3
    /\ attempts["data_validator"] = 0

\* The .csv objects under the folder prefix whose read succeeds, as
\* positions of the bucket listing, in listing order.
CsvObjectsRead(listing, folder_path, ok) ==
    Positions(listing, 1,
              {i \in 1..Len(listing) :
                  /\ listing[i].ext = "csv"
                  /\ \/ folder_path = ""
                     \/ /\ Len(listing[i].path) >= 1
                        /\ listing[i].path[1] = folder_path
                  /\ i \in ok})

\* C14: AwsS3DataLoaderStrategy skips the objects that are not .csv, goes on
\* after a read error on one object, returns the frames of exactly the .csv
\* objects that were read, in listing order, and raises only when there is
\* none.
C14_S3LoadsWhatWasRead ==
    (/\ pc = "returned"
     /\ "strategy" \in DOMAIN config.data.load
     /\ config.data.load.strategy = PyStr("aws_s3"))
        => LET read == CsvObjectsRead(files, config.data.load.args.folder_path,
                                      readOk)
           IN IF Len(read) = 0
              THEN raised = "Exception"
              ELSE /\ raised = "none"
                   /\ ret = Flatten([k \in 1..Len(read) |->
                                        scan_csv(files[read[k]].frame)])

\* A preprocessor that has been fitted.
IsFitted(obj) == obj # NoRet /\ "fitted_on" \in DOMAIN obj

\* Both fitted preprocessors are on disk, pickled after fitting and before
\* anything else was written.
PicklesOnDisk ==
    /\ Len(artifacts) >= 2
    /\ IsFitted(locals.feature_transformer)
    /\ IsFitted(locals.label_transformer)
    /\ artifacts[1] = Pickle("feature_transformer_.pkl",
                             locals.feature_transformer)
    /\ artifacts[2] = Pickle("label_binarizer.pkl", locals.label_transformer)

\* C13: DataEngine.transform fits the feature transformer and the label
\* binarizer on X_train and y_train only, has both fitted objects pickled as
\* feature_transformer_.pkl and label_binarizer.pkl before it transforms any
\* split, and transforms the train and the test split with those same
\* objects.
C13_FitOnTrainOnly ==
    LET ft == locals.feature_transformer
        lt == locals.label_transformer
        inputs == <<splits.X_train, splits.X_test, splits.y_train,
                    splits.y_test>>
    IN /\ IsFitted(ft) =>
            /\ ft.fitted_on = splits.X_train
            /\ \A c \in DOMAIN ft.categories :
                  ft.categories[c] = ColumnValuesOf(splits.X_train, c)
       /\ IsFitted(lt) =>
            /\ lt.fitted_on = splits.y_train
            /\ lt.classes = ColumnValuesOf(splits.y_train, "Churn")
       /\ (pc \in {"transform", "savez", "return"} \/ Len(locals.arrays) > 0)
            => PicklesOnDisk
       /\ \A k \in 1..Len(locals.arrays) :
            locals.arrays[k] = [by |-> IF k <= 2 THEN ft ELSE lt,
                                of |-> inputs[k]]
       /\ transformed_ds # NoRet =>
            /\ PicklesOnDisk
            /\ transformed_ds.X_train = [by |-> artifacts[1].content,
                                         of |-> splits.X_train]
            /\ transformed_ds.X_test = [by |-> artifacts[1].content,
                                        of |-> splits.X_test]
            /\ transformed_ds.y_train = [by |-> artifacts[2].content,
                                         of |-> splits.y_train]
            /\ transformed_ds.y_test = [by |-> artifacts[2].content,
                                        of |-> splits.y_test]

\* C13 witness: X_test holds a category that X_train lacks; the fitted
\* objects were pickled, X_train was transformed, and transforming X_test
\* raised.
C13_Witness ==
    /\ pc = "returned"
    /\ raised = "ValueError"
    /\ PicklesOnDisk
    /\ Len(locals.arrays) = 1
    /\ \E c \in DOMAIN locals.feature_transformer.categories :
          ~(ColumnValuesOf(splits.X_test, c)
                \subseteq ColumnValuesOf(splits.X_train, c))

\* The statement-by-statement run ends as DataEngine_transform says: the
\* same return value or exception and the same files in the same order.
TransformStepsAgree ==
    pc = "returned" =>
        LET r == DataEngine_transform(config.data.transform, splits)
        IN /\ raised = r.raised
           /\ transformed_ds = r.ret
           /\ artifacts = r.written

\* The columns a transform config names in its scale, dummy and ordinal
\* groups, taken together.
TransformColumns(transform_config) ==
    (IF "scale" \in DOMAIN transform_config
     THEN transform_config.scale ELSE <<>>)
    \o (IF "dummy" \in DOMAIN transform_config
        THEN transform_config.dummy ELSE <<>>)
    \o (IF "ordinal" \in DOMAIN transform_config
        THEN transform_config.ordinal ELSE <<>>)

\* The stage-key, strategy and split checks pass on the config.
EarlierChecksPass(cfg) ==
    /\ validate_base_args(cfg.data) = "none"
    /\ validate_load_args(cfg.data) = "none"
    /\ validate_split_args(cfg.data) = "none"

\* C15: validate_data_config accepts a config only when no column occurs
\* twice across the scale, dummy and ordinal groups; a repeated column raises
\* ConfigValidationError once the stage-key, strategy and split checks have
\* passed, and while one of those fails it is their exception that is raised.
C15_RepeatedColumnRejected ==
    pc = "returned" =>
        /\ ~EarlierChecksPass(config) =>
              raised \in {validate_base_args(config.data),
                          validate_load_args(config.data),
                          validate_split_args(config.data)} \ {"none"}
        /\ (/\ "transform" \in DOMAIN config.data
            /\ ~AllUnique(TransformColumns(config.data.transform))) =>
              /\ raised # "none"
              /\ EarlierChecksPass(config) => raised = "ConfigValidationError"
====
